---- MODULE Spec2Model ----
\* unicode-brackets: the four methods of `impl UnicodeBrackets for char`
\* (src/lib.rs), and a caller that applies them to characters.
\*
\* A char is modelled by its Unicode scalar value.  Each method is one match
\* on *self with literal patterns and a wildcard arm; it is translated arm by
\* arm into a CASE whose OTHER branch is the wildcard arm.
EXTENDS Integers, Sequences, FiniteSets

\* ---------------------------------------------------------------------------
\* The domain of char.
\* ---------------------------------------------------------------------------

\* char::MAX, the largest Unicode scalar value (U+10FFFF).
MaxScalar == 1114111

\* The surrogate range U+D800..U+DFFF is not part of char.
SurrogateLo == 55296
SurrogateHi == 57343

IsScalar(x) == x \in 0..MaxScalar /\ ~(x \in SurrogateLo..SurrogateHi)

\* ---------------------------------------------------------------------------
\* The methods.
\* ---------------------------------------------------------------------------

\* is_open_bracket with the arm for U+298F left out.
is_open_bracket_missing_arm(self) ==
    CASE self = 40 -> TRUE  \* U+0028 LEFT PARENTHESIS
      [] self = 91 -> TRUE  \* U+005B LEFT SQUARE BRACKET
      [] self = 123 -> TRUE  \* U+007B LEFT CURLY BRACKET
      [] self = 3898 -> TRUE  \* U+0F3A TIBETAN MARK GUG RTAGS GYON
      [] self = 3900 -> TRUE  \* U+0F3C TIBETAN MARK ANG KHANG GYON
      [] self = 5787 -> TRUE  \* U+169B OGHAM FEATHER MARK
      [] self = 8261 -> TRUE  \* U+2045 LEFT SQUARE BRACKET WITH QUILL
      [] self = 8317 -> TRUE  \* U+207D SUPERSCRIPT LEFT PARENTHESIS
      [] self = 8333 -> TRUE  \* U+208D SUBSCRIPT LEFT PARENTHESIS
      [] self = 8968 -> TRUE  \* U+2308 LEFT CEILING
      [] self = 8970 -> TRUE  \* U+230A LEFT FLOOR
      [] self = 9001 -> TRUE  \* U+2329 LEFT-POINTING ANGLE BRACKET
      [] self = 10088 -> TRUE  \* U+2768 MEDIUM LEFT PARENTHESIS ORNAMENT
      [] self = 10090 -> TRUE  \* U+276A MEDIUM FLATTENED LEFT PARENTHESIS ORNAMENT
      [] self = 10092 -> TRUE  \* U+276C MEDIUM LEFT-POINTING ANGLE BRACKET ORNAMENT
      [] self = 10094 -> TRUE  \* U+276E HEAVY LEFT-POINTING ANGLE QUOTATION MARK ORNAMENT
      [] self = 10096 -> TRUE  \* U+2770 HEAVY LEFT-POINTING ANGLE BRACKET ORNAMENT
      [] self = 10098 -> TRUE  \* U+2772 LIGHT LEFT TORTOISE SHELL BRACKET ORNAMENT
      [] self = 10100 -> TRUE  \* U+2774 MEDIUM LEFT CURLY BRACKET ORNAMENT
      [] self = 10181 -> TRUE  \* U+27C5 LEFT S-SHAPED BAG DELIMITER
      [] self = 10214 -> TRUE  \* U+27E6 MATHEMATICAL LEFT WHITE SQUARE BRACKET
      [] self = 10216 -> TRUE  \* U+27E8 MATHEMATICAL LEFT ANGLE BRACKET
      [] self = 10218 -> TRUE  \* U+27EA MATHEMATICAL LEFT DOUBLE ANGLE BRACKET
      [] self = 10220 -> TRUE  \* U+27EC MATHEMATICAL LEFT WHITE TORTOISE SHELL BRACKET
      [] self = 10222 -> TRUE  \* U+27EE MATHEMATICAL LEFT FLATTENED PARENTHESIS
      [] self = 10627 -> TRUE  \* U+2983 LEFT WHITE CURLY BRACKET
      [] self = 10629 -> TRUE  \* U+2985 LEFT WHITE PARENTHESIS
      [] self = 10631 -> TRUE  \* U+2987 Z NOTATION LEFT IMAGE BRACKET
      [] self = 10633 -> TRUE  \* U+2989 Z NOTATION LEFT BINDING BRACKET
      [] self = 10635 -> TRUE  \* U+298B LEFT SQUARE BRACKET WITH UNDERBAR
      [] self = 10637 -> TRUE  \* U+298D LEFT SQUARE BRACKET WITH TICK IN TOP CORNER
      [] self = 10641 -> TRUE  \* U+2991 LEFT ANGLE BRACKET WITH DOT
      [] self = 10643 -> TRUE  \* U+2993 LEFT ARC LESS-THAN BRACKET
      [] self = 10645 -> TRUE  \* U+2995 DOUBLE LEFT ARC GREATER-THAN BRACKET
      [] self = 10647 -> TRUE  \* U+2997 LEFT BLACK TORTOISE SHELL BRACKET
      [] self = 10712 -> TRUE  \* U+29D8 LEFT WIGGLY FENCE
      [] self = 10714 -> TRUE  \* U+29DA LEFT DOUBLE WIGGLY FENCE
      [] self = 10748 -> TRUE  \* U+29FC LEFT-POINTING CURVED ANGLE BRACKET
      [] self = 11810 -> TRUE  \* U+2E22 TOP LEFT HALF BRACKET
      [] self = 11812 -> TRUE  \* U+2E24 BOTTOM LEFT HALF BRACKET
      [] self = 11814 -> TRUE  \* U+2E26 LEFT SIDEWAYS U BRACKET
      [] self = 11816 -> TRUE  \* U+2E28 LEFT DOUBLE PARENTHESIS
      [] self = 12296 -> TRUE  \* U+3008 LEFT ANGLE BRACKET
      [] self = 12298 -> TRUE  \* U+300A LEFT DOUBLE ANGLE BRACKET
      [] self = 12300 -> TRUE  \* U+300C LEFT CORNER BRACKET
      [] self = 12302 -> TRUE  \* U+300E LEFT WHITE CORNER BRACKET
      [] self = 12304 -> TRUE  \* U+3010 LEFT BLACK LENTICULAR BRACKET
      [] self = 12308 -> TRUE  \* U+3014 LEFT TORTOISE SHELL BRACKET
      [] self = 12310 -> TRUE  \* U+3016 LEFT WHITE LENTICULAR BRACKET
      [] self = 12312 -> TRUE  \* U+3018 LEFT WHITE TORTOISE SHELL BRACKET
      [] self = 12314 -> TRUE  \* U+301A LEFT WHITE SQUARE BRACKET
      [] self = 65113 -> TRUE  \* U+FE59 SMALL LEFT PARENTHESIS
      [] self = 65115 -> TRUE  \* U+FE5B SMALL LEFT CURLY BRACKET
      [] self = 65117 -> TRUE  \* U+FE5D SMALL LEFT TORTOISE SHELL BRACKET
      [] self = 65288 -> TRUE  \* U+FF08 FULLWIDTH LEFT PARENTHESIS
      [] self = 65339 -> TRUE  \* U+FF3B FULLWIDTH LEFT SQUARE BRACKET
      [] self = 65371 -> TRUE  \* U+FF5B FULLWIDTH LEFT CURLY BRACKET
      [] self = 65375 -> TRUE  \* U+FF5F FULLWIDTH LEFT WHITE PARENTHESIS
      [] self = 65378 -> TRUE  \* U+FF62 HALFWIDTH LEFT CORNER BRACKET
      [] OTHER -> FALSE

\* is_open_bracket with an arm for U+003C, which has no transform entry.
is_open_bracket_extra_arm(self) ==
    CASE self = 40 -> TRUE  \* U+0028 LEFT PARENTHESIS
      [] self = 91 -> TRUE  \* U+005B LEFT SQUARE BRACKET
      [] self = 123 -> TRUE  \* U+007B LEFT CURLY BRACKET
      [] self = 3898 -> TRUE  \* U+0F3A TIBETAN MARK GUG RTAGS GYON
      [] self = 3900 -> TRUE  \* U+0F3C TIBETAN MARK ANG KHANG GYON
      [] self = 5787 -> TRUE  \* U+169B OGHAM FEATHER MARK
      [] self = 8261 -> TRUE  \* U+2045 LEFT SQUARE BRACKET WITH QUILL
      [] self = 8317 -> TRUE  \* U+207D SUPERSCRIPT LEFT PARENTHESIS
      [] self = 8333 -> TRUE  \* U+208D SUBSCRIPT LEFT PARENTHESIS
      [] self = 8968 -> TRUE  \* U+2308 LEFT CEILING
      [] self = 8970 -> TRUE  \* U+230A LEFT FLOOR
      [] self = 9001 -> TRUE  \* U+2329 LEFT-POINTING ANGLE BRACKET
      [] self = 10088 -> TRUE  \* U+2768 MEDIUM LEFT PARENTHESIS ORNAMENT
      [] self = 10090 -> TRUE  \* U+276A MEDIUM FLATTENED LEFT PARENTHESIS ORNAMENT
      [] self = 10092 -> TRUE  \* U+276C MEDIUM LEFT-POINTING ANGLE BRACKET ORNAMENT
      [] self = 10094 -> TRUE  \* U+276E HEAVY LEFT-POINTING ANGLE QUOTATION MARK ORNAMENT
      [] self = 10096 -> TRUE  \* U+2770 HEAVY LEFT-POINTING ANGLE BRACKET ORNAMENT
      [] self = 10098 -> TRUE  \* U+2772 LIGHT LEFT TORTOISE SHELL BRACKET ORNAMENT
      [] self = 10100 -> TRUE  \* U+2774 MEDIUM LEFT CURLY BRACKET ORNAMENT
      [] self = 10181 -> TRUE  \* U+27C5 LEFT S-SHAPED BAG DELIMITER
      [] self = 10214 -> TRUE  \* U+27E6 MATHEMATICAL LEFT WHITE SQUARE BRACKET
      [] self = 10216 -> TRUE  \* U+27E8 MATHEMATICAL LEFT ANGLE BRACKET
      [] self = 10218 -> TRUE  \* U+27EA MATHEMATICAL LEFT DOUBLE ANGLE BRACKET
      [] self = 10220 -> TRUE  \* U+27EC MATHEMATICAL LEFT WHITE TORTOISE SHELL BRACKET
      [] self = 10222 -> TRUE  \* U+27EE MATHEMATICAL LEFT FLATTENED PARENTHESIS
      [] self = 10627 -> TRUE  \* U+2983 LEFT WHITE CURLY BRACKET
      [] self = 10629 -> TRUE  \* U+2985 LEFT WHITE PARENTHESIS
      [] self = 10631 -> TRUE  \* U+2987 Z NOTATION LEFT IMAGE BRACKET
      [] self = 10633 -> TRUE  \* U+2989 Z NOTATION LEFT BINDING BRACKET
      [] self = 10635 -> TRUE  \* U+298B LEFT SQUARE BRACKET WITH UNDERBAR
      [] self = 10637 -> TRUE  \* U+298D LEFT SQUARE BRACKET WITH TICK IN TOP CORNER
      [] self = 10639 -> TRUE  \* U+298F LEFT SQUARE BRACKET WITH TICK IN BOTTOM CORNER
      [] self = 10641 -> TRUE  \* U+2991 LEFT ANGLE BRACKET WITH DOT
      [] self = 10643 -> TRUE  \* U+2993 LEFT ARC LESS-THAN BRACKET
      [] self = 10645 -> TRUE  \* U+2995 DOUBLE LEFT ARC GREATER-THAN BRACKET
      [] self = 10647 -> TRUE  \* U+2997 LEFT BLACK TORTOISE SHELL BRACKET
      [] self = 10712 -> TRUE  \* U+29D8 LEFT WIGGLY FENCE
      [] self = 10714 -> TRUE  \* U+29DA LEFT DOUBLE WIGGLY FENCE
      [] self = 10748 -> TRUE  \* U+29FC LEFT-POINTING CURVED ANGLE BRACKET
      [] self = 11810 -> TRUE  \* U+2E22 TOP LEFT HALF BRACKET
      [] self = 11812 -> TRUE  \* U+2E24 BOTTOM LEFT HALF BRACKET
      [] self = 11814 -> TRUE  \* U+2E26 LEFT SIDEWAYS U BRACKET
      [] self = 11816 -> TRUE  \* U+2E28 LEFT DOUBLE PARENTHESIS
      [] self = 12296 -> TRUE  \* U+3008 LEFT ANGLE BRACKET
      [] self = 12298 -> TRUE  \* U+300A LEFT DOUBLE ANGLE BRACKET
      [] self = 12300 -> TRUE  \* U+300C LEFT CORNER BRACKET
      [] self = 12302 -> TRUE  \* U+300E LEFT WHITE CORNER BRACKET
      [] self = 12304 -> TRUE  \* U+3010 LEFT BLACK LENTICULAR BRACKET
      [] self = 12308 -> TRUE  \* U+3014 LEFT TORTOISE SHELL BRACKET
      [] self = 12310 -> TRUE  \* U+3016 LEFT WHITE LENTICULAR BRACKET
      [] self = 12312 -> TRUE  \* U+3018 LEFT WHITE TORTOISE SHELL BRACKET
      [] self = 12314 -> TRUE  \* U+301A LEFT WHITE SQUARE BRACKET
      [] self = 65113 -> TRUE  \* U+FE59 SMALL LEFT PARENTHESIS
      [] self = 65115 -> TRUE  \* U+FE5B SMALL LEFT CURLY BRACKET
      [] self = 65117 -> TRUE  \* U+FE5D SMALL LEFT TORTOISE SHELL BRACKET
      [] self = 65288 -> TRUE  \* U+FF08 FULLWIDTH LEFT PARENTHESIS
      [] self = 65339 -> TRUE  \* U+FF3B FULLWIDTH LEFT SQUARE BRACKET
      [] self = 65371 -> TRUE  \* U+FF5B FULLWIDTH LEFT CURLY BRACKET
      [] self = 65375 -> TRUE  \* U+FF5F FULLWIDTH LEFT WHITE PARENTHESIS
      [] self = 65378 -> TRUE  \* U+FF62 HALFWIDTH LEFT CORNER BRACKET
      [] self = 60 -> TRUE  \* U+003C LESS-THAN SIGN (not in the source)
      [] OTHER -> FALSE

\* fn is_open_bracket(&self) -> bool: the match on *self, one arm per literal,
\* the wildcard arm last.  A char is its scalar value.
is_open_bracket(self) ==
    CASE self = 40 -> TRUE  \* U+0028 LEFT PARENTHESIS
      [] self = 91 -> TRUE  \* U+005B LEFT SQUARE BRACKET
      [] self = 123 -> TRUE  \* U+007B LEFT CURLY BRACKET
      [] self = 3898 -> TRUE  \* U+0F3A TIBETAN MARK GUG RTAGS GYON
      [] self = 3900 -> TRUE  \* U+0F3C TIBETAN MARK ANG KHANG GYON
      [] self = 5787 -> TRUE  \* U+169B OGHAM FEATHER MARK
      [] self = 8261 -> TRUE  \* U+2045 LEFT SQUARE BRACKET WITH QUILL
      [] self = 8317 -> TRUE  \* U+207D SUPERSCRIPT LEFT PARENTHESIS
      [] self = 8333 -> TRUE  \* U+208D SUBSCRIPT LEFT PARENTHESIS
      [] self = 8968 -> TRUE  \* U+2308 LEFT CEILING
      [] self = 8970 -> TRUE  \* U+230A LEFT FLOOR
      [] self = 9001 -> TRUE  \* U+2329 LEFT-POINTING ANGLE BRACKET
      [] self = 10088 -> TRUE  \* U+2768 MEDIUM LEFT PARENTHESIS ORNAMENT
      [] self = 10090 -> TRUE  \* U+276A MEDIUM FLATTENED LEFT PARENTHESIS ORNAMENT
      [] self = 10092 -> TRUE  \* U+276C MEDIUM LEFT-POINTING ANGLE BRACKET ORNAMENT
      [] self = 10094 -> TRUE  \* U+276E HEAVY LEFT-POINTING ANGLE QUOTATION MARK ORNAMENT
      [] self = 10096 -> TRUE  \* U+2770 HEAVY LEFT-POINTING ANGLE BRACKET ORNAMENT
      [] self = 10098 -> TRUE  \* U+2772 LIGHT LEFT TORTOISE SHELL BRACKET ORNAMENT
      [] self = 10100 -> TRUE  \* U+2774 MEDIUM LEFT CURLY BRACKET ORNAMENT
      [] self = 10181 -> TRUE  \* U+27C5 LEFT S-SHAPED BAG DELIMITER
      [] self = 10214 -> TRUE  \* U+27E6 MATHEMATICAL LEFT WHITE SQUARE BRACKET
      [] self = 10216 -> TRUE  \* U+27E8 MATHEMATICAL LEFT ANGLE BRACKET
      [] self = 10218 -> TRUE  \* U+27EA MATHEMATICAL LEFT DOUBLE ANGLE BRACKET
      [] self = 10220 -> TRUE  \* U+27EC MATHEMATICAL LEFT WHITE TORTOISE SHELL BRACKET
      [] self = 10222 -> TRUE  \* U+27EE MATHEMATICAL LEFT FLATTENED PARENTHESIS
      [] self = 10627 -> TRUE  \* U+2983 LEFT WHITE CURLY BRACKET
      [] self = 10629 -> TRUE  \* U+2985 LEFT WHITE PARENTHESIS
      [] self = 10631 -> TRUE  \* U+2987 Z NOTATION LEFT IMAGE BRACKET
      [] self = 10633 -> TRUE  \* U+2989 Z NOTATION LEFT BINDING BRACKET
      [] self = 10635 -> TRUE  \* U+298B LEFT SQUARE BRACKET WITH UNDERBAR
      [] self = 10637 -> TRUE  \* U+298D LEFT SQUARE BRACKET WITH TICK IN TOP CORNER
      [] self = 10639 -> TRUE  \* U+298F LEFT SQUARE BRACKET WITH TICK IN BOTTOM CORNER
      [] self = 10641 -> TRUE  \* U+2991 LEFT ANGLE BRACKET WITH DOT
      [] self = 10643 -> TRUE  \* U+2993 LEFT ARC LESS-THAN BRACKET
      [] self = 10645 -> TRUE  \* U+2995 DOUBLE LEFT ARC GREATER-THAN BRACKET
      [] self = 10647 -> TRUE  \* U+2997 LEFT BLACK TORTOISE SHELL BRACKET
      [] self = 10712 -> TRUE  \* U+29D8 LEFT WIGGLY FENCE
      [] self = 10714 -> TRUE  \* U+29DA LEFT DOUBLE WIGGLY FENCE
      [] self = 10748 -> TRUE  \* U+29FC LEFT-POINTING CURVED ANGLE BRACKET
      [] self = 11810 -> TRUE  \* U+2E22 TOP LEFT HALF BRACKET
      [] self = 11812 -> TRUE  \* U+2E24 BOTTOM LEFT HALF BRACKET
      [] self = 11814 -> TRUE  \* U+2E26 LEFT SIDEWAYS U BRACKET
      [] self = 11816 -> TRUE  \* U+2E28 LEFT DOUBLE PARENTHESIS
      [] self = 12296 -> TRUE  \* U+3008 LEFT ANGLE BRACKET
      [] self = 12298 -> TRUE  \* U+300A LEFT DOUBLE ANGLE BRACKET
      [] self = 12300 -> TRUE  \* U+300C LEFT CORNER BRACKET
      [] self = 12302 -> TRUE  \* U+300E LEFT WHITE CORNER BRACKET
      [] self = 12304 -> TRUE  \* U+3010 LEFT BLACK LENTICULAR BRACKET
      [] self = 12308 -> TRUE  \* U+3014 LEFT TORTOISE SHELL BRACKET
      [] self = 12310 -> TRUE  \* U+3016 LEFT WHITE LENTICULAR BRACKET
      [] self = 12312 -> TRUE  \* U+3018 LEFT WHITE TORTOISE SHELL BRACKET
      [] self = 12314 -> TRUE  \* U+301A LEFT WHITE SQUARE BRACKET
      [] self = 65113 -> TRUE  \* U+FE59 SMALL LEFT PARENTHESIS
      [] self = 65115 -> TRUE  \* U+FE5B SMALL LEFT CURLY BRACKET
      [] self = 65117 -> TRUE  \* U+FE5D SMALL LEFT TORTOISE SHELL BRACKET
      [] self = 65288 -> TRUE  \* U+FF08 FULLWIDTH LEFT PARENTHESIS
      [] self = 65339 -> TRUE  \* U+FF3B FULLWIDTH LEFT SQUARE BRACKET
      [] self = 65371 -> TRUE  \* U+FF5B FULLWIDTH LEFT CURLY BRACKET
      [] self = 65375 -> TRUE  \* U+FF5F FULLWIDTH LEFT WHITE PARENTHESIS
      [] self = 65378 -> TRUE  \* U+FF62 HALFWIDTH LEFT CORNER BRACKET
      [] OTHER -> FALSE

\* is_close_bracket listing U+298F where the source lists U+298E, as if every
\* close bracket were its open bracket plus one.
is_close_bracket_swapped(self) ==
    CASE self = 41 -> TRUE  \* U+0029 RIGHT PARENTHESIS
      [] self = 93 -> TRUE  \* U+005D RIGHT SQUARE BRACKET
      [] self = 125 -> TRUE  \* U+007D RIGHT CURLY BRACKET
      [] self = 3899 -> TRUE  \* U+0F3B TIBETAN MARK GUG RTAGS GYAS
      [] self = 3901 -> TRUE  \* U+0F3D TIBETAN MARK ANG KHANG GYAS
      [] self = 5788 -> TRUE  \* U+169C OGHAM REVERSED FEATHER MARK
      [] self = 8262 -> TRUE  \* U+2046 RIGHT SQUARE BRACKET WITH QUILL
      [] self = 8318 -> TRUE  \* U+207E SUPERSCRIPT RIGHT PARENTHESIS
      [] self = 8334 -> TRUE  \* U+208E SUBSCRIPT RIGHT PARENTHESIS
      [] self = 8969 -> TRUE  \* U+2309 RIGHT CEILING
      [] self = 8971 -> TRUE  \* U+230B RIGHT FLOOR
      [] self = 9002 -> TRUE  \* U+232A RIGHT-POINTING ANGLE BRACKET
      [] self = 10089 -> TRUE  \* U+2769 MEDIUM RIGHT PARENTHESIS ORNAMENT
      [] self = 10091 -> TRUE  \* U+276B MEDIUM FLATTENED RIGHT PARENTHESIS ORNAMENT
      [] self = 10093 -> TRUE  \* U+276D MEDIUM RIGHT-POINTING ANGLE BRACKET ORNAMENT
      [] self = 10095 -> TRUE  \* U+276F HEAVY RIGHT-POINTING ANGLE QUOTATION MARK ORNAMENT
      [] self = 10097 -> TRUE  \* U+2771 HEAVY RIGHT-POINTING ANGLE BRACKET ORNAMENT
      [] self = 10099 -> TRUE  \* U+2773 LIGHT RIGHT TORTOISE SHELL BRACKET ORNAMENT
      [] self = 10101 -> TRUE  \* U+2775 MEDIUM RIGHT CURLY BRACKET ORNAMENT
      [] self = 10182 -> TRUE  \* U+27C6 RIGHT S-SHAPED BAG DELIMITER
      [] self = 10215 -> TRUE  \* U+27E7 MATHEMATICAL RIGHT WHITE SQUARE BRACKET
      [] self = 10217 -> TRUE  \* U+27E9 MATHEMATICAL RIGHT ANGLE BRACKET
      [] self = 10219 -> TRUE  \* U+27EB MATHEMATICAL RIGHT DOUBLE ANGLE BRACKET
      [] self = 10221 -> TRUE  \* U+27ED MATHEMATICAL RIGHT WHITE TORTOISE SHELL BRACKET
      [] self = 10223 -> TRUE  \* U+27EF MATHEMATICAL RIGHT FLATTENED PARENTHESIS
      [] self = 10628 -> TRUE  \* U+2984 RIGHT WHITE CURLY BRACKET
      [] self = 10630 -> TRUE  \* U+2986 RIGHT WHITE PARENTHESIS
      [] self = 10632 -> TRUE  \* U+2988 Z NOTATION RIGHT IMAGE BRACKET
      [] self = 10634 -> TRUE  \* U+298A Z NOTATION RIGHT BINDING BRACKET
      [] self = 10636 -> TRUE  \* U+298C RIGHT SQUARE BRACKET WITH UNDERBAR
      [] self = 10640 -> TRUE  \* U+2990 RIGHT SQUARE BRACKET WITH TICK IN TOP CORNER
      [] self = 10642 -> TRUE  \* U+2992 RIGHT ANGLE BRACKET WITH DOT
      [] self = 10644 -> TRUE  \* U+2994 RIGHT ARC GREATER-THAN BRACKET
      [] self = 10646 -> TRUE  \* U+2996 DOUBLE RIGHT ARC LESS-THAN BRACKET
      [] self = 10648 -> TRUE  \* U+2998 RIGHT BLACK TORTOISE SHELL BRACKET
      [] self = 10713 -> TRUE  \* U+29D9 RIGHT WIGGLY FENCE
      [] self = 10715 -> TRUE  \* U+29DB RIGHT DOUBLE WIGGLY FENCE
      [] self = 10749 -> TRUE  \* U+29FD RIGHT-POINTING CURVED ANGLE BRACKET
      [] self = 11811 -> TRUE  \* U+2E23 TOP RIGHT HALF BRACKET
      [] self = 11813 -> TRUE  \* U+2E25 BOTTOM RIGHT HALF BRACKET
      [] self = 11815 -> TRUE  \* U+2E27 RIGHT SIDEWAYS U BRACKET
      [] self = 11817 -> TRUE  \* U+2E29 RIGHT DOUBLE PARENTHESIS
      [] self = 12297 -> TRUE  \* U+3009 RIGHT ANGLE BRACKET
      [] self = 12299 -> TRUE  \* U+300B RIGHT DOUBLE ANGLE BRACKET
      [] self = 12301 -> TRUE  \* U+300D RIGHT CORNER BRACKET
      [] self = 12303 -> TRUE  \* U+300F RIGHT WHITE CORNER BRACKET
      [] self = 12305 -> TRUE  \* U+3011 RIGHT BLACK LENTICULAR BRACKET
      [] self = 12309 -> TRUE  \* U+3015 RIGHT TORTOISE SHELL BRACKET
      [] self = 12311 -> TRUE  \* U+3017 RIGHT WHITE LENTICULAR BRACKET
      [] self = 12313 -> TRUE  \* U+3019 RIGHT WHITE TORTOISE SHELL BRACKET
      [] self = 12315 -> TRUE  \* U+301B RIGHT WHITE SQUARE BRACKET
      [] self = 65114 -> TRUE  \* U+FE5A SMALL RIGHT PARENTHESIS
      [] self = 65116 -> TRUE  \* U+FE5C SMALL RIGHT CURLY BRACKET
      [] self = 65118 -> TRUE  \* U+FE5E SMALL RIGHT TORTOISE SHELL BRACKET
      [] self = 65289 -> TRUE  \* U+FF09 FULLWIDTH RIGHT PARENTHESIS
      [] self = 65341 -> TRUE  \* U+FF3D FULLWIDTH RIGHT SQUARE BRACKET
      [] self = 65373 -> TRUE  \* U+FF5D FULLWIDTH RIGHT CURLY BRACKET
      [] self = 65376 -> TRUE  \* U+FF60 FULLWIDTH RIGHT WHITE PARENTHESIS
      [] self = 65379 -> TRUE  \* U+FF63 HALFWIDTH RIGHT CORNER BRACKET
      [] self = 10639 -> TRUE  \* U+298F (the open of the pair, listed in place of U+298E)
      [] OTHER -> FALSE

\* fn is_close_bracket(&self) -> bool.
is_close_bracket(self) ==
    CASE self = 41 -> TRUE  \* U+0029 RIGHT PARENTHESIS
      [] self = 93 -> TRUE  \* U+005D RIGHT SQUARE BRACKET
      [] self = 125 -> TRUE  \* U+007D RIGHT CURLY BRACKET
      [] self = 3899 -> TRUE  \* U+0F3B TIBETAN MARK GUG RTAGS GYAS
      [] self = 3901 -> TRUE  \* U+0F3D TIBETAN MARK ANG KHANG GYAS
      [] self = 5788 -> TRUE  \* U+169C OGHAM REVERSED FEATHER MARK
      [] self = 8262 -> TRUE  \* U+2046 RIGHT SQUARE BRACKET WITH QUILL
      [] self = 8318 -> TRUE  \* U+207E SUPERSCRIPT RIGHT PARENTHESIS
      [] self = 8334 -> TRUE  \* U+208E SUBSCRIPT RIGHT PARENTHESIS
      [] self = 8969 -> TRUE  \* U+2309 RIGHT CEILING
      [] self = 8971 -> TRUE  \* U+230B RIGHT FLOOR
      [] self = 9002 -> TRUE  \* U+232A RIGHT-POINTING ANGLE BRACKET
      [] self = 10089 -> TRUE  \* U+2769 MEDIUM RIGHT PARENTHESIS ORNAMENT
      [] self = 10091 -> TRUE  \* U+276B MEDIUM FLATTENED RIGHT PARENTHESIS ORNAMENT
      [] self = 10093 -> TRUE  \* U+276D MEDIUM RIGHT-POINTING ANGLE BRACKET ORNAMENT
      [] self = 10095 -> TRUE  \* U+276F HEAVY RIGHT-POINTING ANGLE QUOTATION MARK ORNAMENT
      [] self = 10097 -> TRUE  \* U+2771 HEAVY RIGHT-POINTING ANGLE BRACKET ORNAMENT
      [] self = 10099 -> TRUE  \* U+2773 LIGHT RIGHT TORTOISE SHELL BRACKET ORNAMENT
      [] self = 10101 -> TRUE  \* U+2775 MEDIUM RIGHT CURLY BRACKET ORNAMENT
      [] self = 10182 -> TRUE  \* U+27C6 RIGHT S-SHAPED BAG DELIMITER
      [] self = 10215 -> TRUE  \* U+27E7 MATHEMATICAL RIGHT WHITE SQUARE BRACKET
      [] self = 10217 -> TRUE  \* U+27E9 MATHEMATICAL RIGHT ANGLE BRACKET
      [] self = 10219 -> TRUE  \* U+27EB MATHEMATICAL RIGHT DOUBLE ANGLE BRACKET
      [] self = 10221 -> TRUE  \* U+27ED MATHEMATICAL RIGHT WHITE TORTOISE SHELL BRACKET
      [] self = 10223 -> TRUE  \* U+27EF MATHEMATICAL RIGHT FLATTENED PARENTHESIS
      [] self = 10628 -> TRUE  \* U+2984 RIGHT WHITE CURLY BRACKET
      [] self = 10630 -> TRUE  \* U+2986 RIGHT WHITE PARENTHESIS
      [] self = 10632 -> TRUE  \* U+2988 Z NOTATION RIGHT IMAGE BRACKET
      [] self = 10634 -> TRUE  \* U+298A Z NOTATION RIGHT BINDING BRACKET
      [] self = 10636 -> TRUE  \* U+298C RIGHT SQUARE BRACKET WITH UNDERBAR
      [] self = 10638 -> TRUE  \* U+298E RIGHT SQUARE BRACKET WITH TICK IN BOTTOM CORNER
      [] self = 10640 -> TRUE  \* U+2990 RIGHT SQUARE BRACKET WITH TICK IN TOP CORNER
      [] self = 10642 -> TRUE  \* U+2992 RIGHT ANGLE BRACKET WITH DOT
      [] self = 10644 -> TRUE  \* U+2994 RIGHT ARC GREATER-THAN BRACKET
      [] self = 10646 -> TRUE  \* U+2996 DOUBLE RIGHT ARC LESS-THAN BRACKET
      [] self = 10648 -> TRUE  \* U+2998 RIGHT BLACK TORTOISE SHELL BRACKET
      [] self = 10713 -> TRUE  \* U+29D9 RIGHT WIGGLY FENCE
      [] self = 10715 -> TRUE  \* U+29DB RIGHT DOUBLE WIGGLY FENCE
      [] self = 10749 -> TRUE  \* U+29FD RIGHT-POINTING CURVED ANGLE BRACKET
      [] self = 11811 -> TRUE  \* U+2E23 TOP RIGHT HALF BRACKET
      [] self = 11813 -> TRUE  \* U+2E25 BOTTOM RIGHT HALF BRACKET
      [] self = 11815 -> TRUE  \* U+2E27 RIGHT SIDEWAYS U BRACKET
      [] self = 11817 -> TRUE  \* U+2E29 RIGHT DOUBLE PARENTHESIS
      [] self = 12297 -> TRUE  \* U+3009 RIGHT ANGLE BRACKET
      [] self = 12299 -> TRUE  \* U+300B RIGHT DOUBLE ANGLE BRACKET
      [] self = 12301 -> TRUE  \* U+300D RIGHT CORNER BRACKET
      [] self = 12303 -> TRUE  \* U+300F RIGHT WHITE CORNER BRACKET
      [] self = 12305 -> TRUE  \* U+3011 RIGHT BLACK LENTICULAR BRACKET
      [] self = 12309 -> TRUE  \* U+3015 RIGHT TORTOISE SHELL BRACKET
      [] self = 12311 -> TRUE  \* U+3017 RIGHT WHITE LENTICULAR BRACKET
      [] self = 12313 -> TRUE  \* U+3019 RIGHT WHITE TORTOISE SHELL BRACKET
      [] self = 12315 -> TRUE  \* U+301B RIGHT WHITE SQUARE BRACKET
      [] self = 65114 -> TRUE  \* U+FE5A SMALL RIGHT PARENTHESIS
      [] self = 65116 -> TRUE  \* U+FE5C SMALL RIGHT CURLY BRACKET
      [] self = 65118 -> TRUE  \* U+FE5E SMALL RIGHT TORTOISE SHELL BRACKET
      [] self = 65289 -> TRUE  \* U+FF09 FULLWIDTH RIGHT PARENTHESIS
      [] self = 65341 -> TRUE  \* U+FF3D FULLWIDTH RIGHT SQUARE BRACKET
      [] self = 65373 -> TRUE  \* U+FF5D FULLWIDTH RIGHT CURLY BRACKET
      [] self = 65376 -> TRUE  \* U+FF60 FULLWIDTH RIGHT WHITE PARENTHESIS
      [] self = 65379 -> TRUE  \* U+FF63 HALFWIDTH RIGHT CORNER BRACKET
      [] OTHER -> FALSE

\* to_close_bracket returning U+298E for U+298D (open plus one) where the
\* source returns U+2990.
to_close_bracket_plus_one(self) ==
    CASE self = 40 -> 41  \* U+0028 LEFT PARENTHESIS
      [] self = 91 -> 93  \* U+005B LEFT SQUARE BRACKET
      [] self = 123 -> 125  \* U+007B LEFT CURLY BRACKET
      [] self = 3898 -> 3899  \* U+0F3A TIBETAN MARK GUG RTAGS GYON
      [] self = 3900 -> 3901  \* U+0F3C TIBETAN MARK ANG KHANG GYON
      [] self = 5787 -> 5788  \* U+169B OGHAM FEATHER MARK
      [] self = 8261 -> 8262  \* U+2045 LEFT SQUARE BRACKET WITH QUILL
      [] self = 8317 -> 8318  \* U+207D SUPERSCRIPT LEFT PARENTHESIS
      [] self = 8333 -> 8334  \* U+208D SUBSCRIPT LEFT PARENTHESIS
      [] self = 8968 -> 8969  \* U+2308 LEFT CEILING
      [] self = 8970 -> 8971  \* U+230A LEFT FLOOR
      [] self = 9001 -> 9002  \* U+2329 LEFT-POINTING ANGLE BRACKET
      [] self = 10088 -> 10089  \* U+2768 MEDIUM LEFT PARENTHESIS ORNAMENT
      [] self = 10090 -> 10091  \* U+276A MEDIUM FLATTENED LEFT PARENTHESIS ORNAMENT
      [] self = 10092 -> 10093  \* U+276C MEDIUM LEFT-POINTING ANGLE BRACKET ORNAMENT
      [] self = 10094 -> 10095  \* U+276E HEAVY LEFT-POINTING ANGLE QUOTATION MARK ORNAMENT
      [] self = 10096 -> 10097  \* U+2770 HEAVY LEFT-POINTING ANGLE BRACKET ORNAMENT
      [] self = 10098 -> 10099  \* U+2772 LIGHT LEFT TORTOISE SHELL BRACKET ORNAMENT
      [] self = 10100 -> 10101  \* U+2774 MEDIUM LEFT CURLY BRACKET ORNAMENT
      [] self = 10181 -> 10182  \* U+27C5 LEFT S-SHAPED BAG DELIMITER
      [] self = 10214 -> 10215  \* U+27E6 MATHEMATICAL LEFT WHITE SQUARE BRACKET
      [] self = 10216 -> 10217  \* U+27E8 MATHEMATICAL LEFT ANGLE BRACKET
      [] self = 10218 -> 10219  \* U+27EA MATHEMATICAL LEFT DOUBLE ANGLE BRACKET
      [] self = 10220 -> 10221  \* U+27EC MATHEMATICAL LEFT WHITE TORTOISE SHELL BRACKET
      [] self = 10222 -> 10223  \* U+27EE MATHEMATICAL LEFT FLATTENED PARENTHESIS
      [] self = 10627 -> 10628  \* U+2983 LEFT WHITE CURLY BRACKET
      [] self = 10629 -> 10630  \* U+2985 LEFT WHITE PARENTHESIS
      [] self = 10631 -> 10632  \* U+2987 Z NOTATION LEFT IMAGE BRACKET
      [] self = 10633 -> 10634  \* U+2989 Z NOTATION LEFT BINDING BRACKET
      [] self = 10635 -> 10636  \* U+298B LEFT SQUARE BRACKET WITH UNDERBAR
      [] self = 10637 -> 10638  \* U+298D LEFT SQUARE BRACKET WITH TICK IN TOP CORNER
      [] self = 10639 -> 10638  \* U+298F LEFT SQUARE BRACKET WITH TICK IN BOTTOM CORNER
      [] self = 10641 -> 10642  \* U+2991 LEFT ANGLE BRACKET WITH DOT
      [] self = 10643 -> 10644  \* U+2993 LEFT ARC LESS-THAN BRACKET
      [] self = 10645 -> 10646  \* U+2995 DOUBLE LEFT ARC GREATER-THAN BRACKET
      [] self = 10647 -> 10648  \* U+2997 LEFT BLACK TORTOISE SHELL BRACKET
      [] self = 10712 -> 10713  \* U+29D8 LEFT WIGGLY FENCE
      [] self = 10714 -> 10715  \* U+29DA LEFT DOUBLE WIGGLY FENCE
      [] self = 10748 -> 10749  \* U+29FC LEFT-POINTING CURVED ANGLE BRACKET
      [] self = 11810 -> 11811  \* U+2E22 TOP LEFT HALF BRACKET
      [] self = 11812 -> 11813  \* U+2E24 BOTTOM LEFT HALF BRACKET
      [] self = 11814 -> 11815  \* U+2E26 LEFT SIDEWAYS U BRACKET
      [] self = 11816 -> 11817  \* U+2E28 LEFT DOUBLE PARENTHESIS
      [] self = 12296 -> 12297  \* U+3008 LEFT ANGLE BRACKET
      [] self = 12298 -> 12299  \* U+300A LEFT DOUBLE ANGLE BRACKET
      [] self = 12300 -> 12301  \* U+300C LEFT CORNER BRACKET
      [] self = 12302 -> 12303  \* U+300E LEFT WHITE CORNER BRACKET
      [] self = 12304 -> 12305  \* U+3010 LEFT BLACK LENTICULAR BRACKET
      [] self = 12308 -> 12309  \* U+3014 LEFT TORTOISE SHELL BRACKET
      [] self = 12310 -> 12311  \* U+3016 LEFT WHITE LENTICULAR BRACKET
      [] self = 12312 -> 12313  \* U+3018 LEFT WHITE TORTOISE SHELL BRACKET
      [] self = 12314 -> 12315  \* U+301A LEFT WHITE SQUARE BRACKET
      [] self = 65113 -> 65114  \* U+FE59 SMALL LEFT PARENTHESIS
      [] self = 65115 -> 65116  \* U+FE5B SMALL LEFT CURLY BRACKET
      [] self = 65117 -> 65118  \* U+FE5D SMALL LEFT TORTOISE SHELL BRACKET
      [] self = 65288 -> 65289  \* U+FF08 FULLWIDTH LEFT PARENTHESIS
      [] self = 65339 -> 65341  \* U+FF3B FULLWIDTH LEFT SQUARE BRACKET
      [] self = 65371 -> 65373  \* U+FF5B FULLWIDTH LEFT CURLY BRACKET
      [] self = 65375 -> 65376  \* U+FF5F FULLWIDTH LEFT WHITE PARENTHESIS
      [] self = 65378 -> 65379  \* U+FF62 HALFWIDTH LEFT CORNER BRACKET
      [] OTHER -> self

\* to_close_bracket with an arm that mirrors ')' to '(' instead of leaving it
\* to the wildcard arm.
to_close_bracket_mirror(self) ==
    CASE self = 40 -> 41  \* U+0028 LEFT PARENTHESIS
      [] self = 91 -> 93  \* U+005B LEFT SQUARE BRACKET
      [] self = 123 -> 125  \* U+007B LEFT CURLY BRACKET
      [] self = 3898 -> 3899  \* U+0F3A TIBETAN MARK GUG RTAGS GYON
      [] self = 3900 -> 3901  \* U+0F3C TIBETAN MARK ANG KHANG GYON
      [] self = 5787 -> 5788  \* U+169B OGHAM FEATHER MARK
      [] self = 8261 -> 8262  \* U+2045 LEFT SQUARE BRACKET WITH QUILL
      [] self = 8317 -> 8318  \* U+207D SUPERSCRIPT LEFT PARENTHESIS
      [] self = 8333 -> 8334  \* U+208D SUBSCRIPT LEFT PARENTHESIS
      [] self = 8968 -> 8969  \* U+2308 LEFT CEILING
      [] self = 8970 -> 8971  \* U+230A LEFT FLOOR
      [] self = 9001 -> 9002  \* U+2329 LEFT-POINTING ANGLE BRACKET
      [] self = 10088 -> 10089  \* U+2768 MEDIUM LEFT PARENTHESIS ORNAMENT
      [] self = 10090 -> 10091  \* U+276A MEDIUM FLATTENED LEFT PARENTHESIS ORNAMENT
      [] self = 10092 -> 10093  \* U+276C MEDIUM LEFT-POINTING ANGLE BRACKET ORNAMENT
      [] self = 10094 -> 10095  \* U+276E HEAVY LEFT-POINTING ANGLE QUOTATION MARK ORNAMENT
      [] self = 10096 -> 10097  \* U+2770 HEAVY LEFT-POINTING ANGLE BRACKET ORNAMENT
      [] self = 10098 -> 10099  \* U+2772 LIGHT LEFT TORTOISE SHELL BRACKET ORNAMENT
      [] self = 10100 -> 10101  \* U+2774 MEDIUM LEFT CURLY BRACKET ORNAMENT
      [] self = 10181 -> 10182  \* U+27C5 LEFT S-SHAPED BAG DELIMITER
      [] self = 10214 -> 10215  \* U+27E6 MATHEMATICAL LEFT WHITE SQUARE BRACKET
      [] self = 10216 -> 10217  \* U+27E8 MATHEMATICAL LEFT ANGLE BRACKET
      [] self = 10218 -> 10219  \* U+27EA MATHEMATICAL LEFT DOUBLE ANGLE BRACKET
      [] self = 10220 -> 10221  \* U+27EC MATHEMATICAL LEFT WHITE TORTOISE SHELL BRACKET
      [] self = 10222 -> 10223  \* U+27EE MATHEMATICAL LEFT FLATTENED PARENTHESIS
      [] self = 10627 -> 10628  \* U+2983 LEFT WHITE CURLY BRACKET
      [] self = 10629 -> 10630  \* U+2985 LEFT WHITE PARENTHESIS
      [] self = 10631 -> 10632  \* U+2987 Z NOTATION LEFT IMAGE BRACKET
      [] self = 10633 -> 10634  \* U+2989 Z NOTATION LEFT BINDING BRACKET
      [] self = 10635 -> 10636  \* U+298B LEFT SQUARE BRACKET WITH UNDERBAR
      [] self = 10637 -> 10640  \* U+298D LEFT SQUARE BRACKET WITH TICK IN TOP CORNER
      [] self = 10639 -> 10638  \* U+298F LEFT SQUARE BRACKET WITH TICK IN BOTTOM CORNER
      [] self = 10641 -> 10642  \* U+2991 LEFT ANGLE BRACKET WITH DOT
      [] self = 10643 -> 10644  \* U+2993 LEFT ARC LESS-THAN BRACKET
      [] self = 10645 -> 10646  \* U+2995 DOUBLE LEFT ARC GREATER-THAN BRACKET
      [] self = 10647 -> 10648  \* U+2997 LEFT BLACK TORTOISE SHELL BRACKET
      [] self = 10712 -> 10713  \* U+29D8 LEFT WIGGLY FENCE
      [] self = 10714 -> 10715  \* U+29DA LEFT DOUBLE WIGGLY FENCE
      [] self = 10748 -> 10749  \* U+29FC LEFT-POINTING CURVED ANGLE BRACKET
      [] self = 11810 -> 11811  \* U+2E22 TOP LEFT HALF BRACKET
      [] self = 11812 -> 11813  \* U+2E24 BOTTOM LEFT HALF BRACKET
      [] self = 11814 -> 11815  \* U+2E26 LEFT SIDEWAYS U BRACKET
      [] self = 11816 -> 11817  \* U+2E28 LEFT DOUBLE PARENTHESIS
      [] self = 12296 -> 12297  \* U+3008 LEFT ANGLE BRACKET
      [] self = 12298 -> 12299  \* U+300A LEFT DOUBLE ANGLE BRACKET
      [] self = 12300 -> 12301  \* U+300C LEFT CORNER BRACKET
      [] self = 12302 -> 12303  \* U+300E LEFT WHITE CORNER BRACKET
      [] self = 12304 -> 12305  \* U+3010 LEFT BLACK LENTICULAR BRACKET
      [] self = 12308 -> 12309  \* U+3014 LEFT TORTOISE SHELL BRACKET
      [] self = 12310 -> 12311  \* U+3016 LEFT WHITE LENTICULAR BRACKET
      [] self = 12312 -> 12313  \* U+3018 LEFT WHITE TORTOISE SHELL BRACKET
      [] self = 12314 -> 12315  \* U+301A LEFT WHITE SQUARE BRACKET
      [] self = 65113 -> 65114  \* U+FE59 SMALL LEFT PARENTHESIS
      [] self = 65115 -> 65116  \* U+FE5B SMALL LEFT CURLY BRACKET
      [] self = 65117 -> 65118  \* U+FE5D SMALL LEFT TORTOISE SHELL BRACKET
      [] self = 65288 -> 65289  \* U+FF08 FULLWIDTH LEFT PARENTHESIS
      [] self = 65339 -> 65341  \* U+FF3B FULLWIDTH LEFT SQUARE BRACKET
      [] self = 65371 -> 65373  \* U+FF5B FULLWIDTH LEFT CURLY BRACKET
      [] self = 65375 -> 65376  \* U+FF5F FULLWIDTH LEFT WHITE PARENTHESIS
      [] self = 65378 -> 65379  \* U+FF62 HALFWIDTH LEFT CORNER BRACKET
      [] self = 41 -> 40  \* U+0029 RIGHT PARENTHESIS (not in the source)
      [] OTHER -> self

\* fn to_close_bracket(&self) -> char: the wildcard arm returns *self.
to_close_bracket(self) ==
    CASE self = 40 -> 41  \* U+0028 LEFT PARENTHESIS
      [] self = 91 -> 93  \* U+005B LEFT SQUARE BRACKET
      [] self = 123 -> 125  \* U+007B LEFT CURLY BRACKET
      [] self = 3898 -> 3899  \* U+0F3A TIBETAN MARK GUG RTAGS GYON
      [] self = 3900 -> 3901  \* U+0F3C TIBETAN MARK ANG KHANG GYON
      [] self = 5787 -> 5788  \* U+169B OGHAM FEATHER MARK
      [] self = 8261 -> 8262  \* U+2045 LEFT SQUARE BRACKET WITH QUILL
      [] self = 8317 -> 8318  \* U+207D SUPERSCRIPT LEFT PARENTHESIS
      [] self = 8333 -> 8334  \* U+208D SUBSCRIPT LEFT PARENTHESIS
      [] self = 8968 -> 8969  \* U+2308 LEFT CEILING
      [] self = 8970 -> 8971  \* U+230A LEFT FLOOR
      [] self = 9001 -> 9002  \* U+2329 LEFT-POINTING ANGLE BRACKET
      [] self = 10088 -> 10089  \* U+2768 MEDIUM LEFT PARENTHESIS ORNAMENT
      [] self = 10090 -> 10091  \* U+276A MEDIUM FLATTENED LEFT PARENTHESIS ORNAMENT
      [] self = 10092 -> 10093  \* U+276C MEDIUM LEFT-POINTING ANGLE BRACKET ORNAMENT
      [] self = 10094 -> 10095  \* U+276E HEAVY LEFT-POINTING ANGLE QUOTATION MARK ORNAMENT
      [] self = 10096 -> 10097  \* U+2770 HEAVY LEFT-POINTING ANGLE BRACKET ORNAMENT
      [] self = 10098 -> 10099  \* U+2772 LIGHT LEFT TORTOISE SHELL BRACKET ORNAMENT
      [] self = 10100 -> 10101  \* U+2774 MEDIUM LEFT CURLY BRACKET ORNAMENT
      [] self = 10181 -> 10182  \* U+27C5 LEFT S-SHAPED BAG DELIMITER
      [] self = 10214 -> 10215  \* U+27E6 MATHEMATICAL LEFT WHITE SQUARE BRACKET
      [] self = 10216 -> 10217  \* U+27E8 MATHEMATICAL LEFT ANGLE BRACKET
      [] self = 10218 -> 10219  \* U+27EA MATHEMATICAL LEFT DOUBLE ANGLE BRACKET
      [] self = 10220 -> 10221  \* U+27EC MATHEMATICAL LEFT WHITE TORTOISE SHELL BRACKET
      [] self = 10222 -> 10223  \* U+27EE MATHEMATICAL LEFT FLATTENED PARENTHESIS
      [] self = 10627 -> 10628  \* U+2983 LEFT WHITE CURLY BRACKET
      [] self = 10629 -> 10630  \* U+2985 LEFT WHITE PARENTHESIS
      [] self = 10631 -> 10632  \* U+2987 Z NOTATION LEFT IMAGE BRACKET
      [] self = 10633 -> 10634  \* U+2989 Z NOTATION LEFT BINDING BRACKET
      [] self = 10635 -> 10636  \* U+298B LEFT SQUARE BRACKET WITH UNDERBAR
      [] self = 10637 -> 10640  \* U+298D LEFT SQUARE BRACKET WITH TICK IN TOP CORNER
      [] self = 10639 -> 10638  \* U+298F LEFT SQUARE BRACKET WITH TICK IN BOTTOM CORNER
      [] self = 10641 -> 10642  \* U+2991 LEFT ANGLE BRACKET WITH DOT
      [] self = 10643 -> 10644  \* U+2993 LEFT ARC LESS-THAN BRACKET
      [] self = 10645 -> 10646  \* U+2995 DOUBLE LEFT ARC GREATER-THAN BRACKET
      [] self = 10647 -> 10648  \* U+2997 LEFT BLACK TORTOISE SHELL BRACKET
      [] self = 10712 -> 10713  \* U+29D8 LEFT WIGGLY FENCE
      [] self = 10714 -> 10715  \* U+29DA LEFT DOUBLE WIGGLY FENCE
      [] self = 10748 -> 10749  \* U+29FC LEFT-POINTING CURVED ANGLE BRACKET
      [] self = 11810 -> 11811  \* U+2E22 TOP LEFT HALF BRACKET
      [] self = 11812 -> 11813  \* U+2E24 BOTTOM LEFT HALF BRACKET
      [] self = 11814 -> 11815  \* U+2E26 LEFT SIDEWAYS U BRACKET
      [] self = 11816 -> 11817  \* U+2E28 LEFT DOUBLE PARENTHESIS
      [] self = 12296 -> 12297  \* U+3008 LEFT ANGLE BRACKET
      [] self = 12298 -> 12299  \* U+300A LEFT DOUBLE ANGLE BRACKET
      [] self = 12300 -> 12301  \* U+300C LEFT CORNER BRACKET
      [] self = 12302 -> 12303  \* U+300E LEFT WHITE CORNER BRACKET
      [] self = 12304 -> 12305  \* U+3010 LEFT BLACK LENTICULAR BRACKET
      [] self = 12308 -> 12309  \* U+3014 LEFT TORTOISE SHELL BRACKET
      [] self = 12310 -> 12311  \* U+3016 LEFT WHITE LENTICULAR BRACKET
      [] self = 12312 -> 12313  \* U+3018 LEFT WHITE TORTOISE SHELL BRACKET
      [] self = 12314 -> 12315  \* U+301A LEFT WHITE SQUARE BRACKET
      [] self = 65113 -> 65114  \* U+FE59 SMALL LEFT PARENTHESIS
      [] self = 65115 -> 65116  \* U+FE5B SMALL LEFT CURLY BRACKET
      [] self = 65117 -> 65118  \* U+FE5D SMALL LEFT TORTOISE SHELL BRACKET
      [] self = 65288 -> 65289  \* U+FF08 FULLWIDTH LEFT PARENTHESIS
      [] self = 65339 -> 65341  \* U+FF3B FULLWIDTH LEFT SQUARE BRACKET
      [] self = 65371 -> 65373  \* U+FF5B FULLWIDTH LEFT CURLY BRACKET
      [] self = 65375 -> 65376  \* U+FF5F FULLWIDTH LEFT WHITE PARENTHESIS
      [] self = 65378 -> 65379  \* U+FF62 HALFWIDTH LEFT CORNER BRACKET
      [] OTHER -> self

\* to_open_bracket returning U+298F for U+2990 (close minus one) where the
\* source returns U+298D.
to_open_bracket_minus_one(self) ==
    CASE self = 41 -> 40  \* U+0029 RIGHT PARENTHESIS
      [] self = 93 -> 91  \* U+005D RIGHT SQUARE BRACKET
      [] self = 125 -> 123  \* U+007D RIGHT CURLY BRACKET
      [] self = 3899 -> 3898  \* U+0F3B TIBETAN MARK GUG RTAGS GYAS
      [] self = 3901 -> 3900  \* U+0F3D TIBETAN MARK ANG KHANG GYAS
      [] self = 5788 -> 5787  \* U+169C OGHAM REVERSED FEATHER MARK
      [] self = 8262 -> 8261  \* U+2046 RIGHT SQUARE BRACKET WITH QUILL
      [] self = 8318 -> 8317  \* U+207E SUPERSCRIPT RIGHT PARENTHESIS
      [] self = 8334 -> 8333  \* U+208E SUBSCRIPT RIGHT PARENTHESIS
      [] self = 8969 -> 8968  \* U+2309 RIGHT CEILING
      [] self = 8971 -> 8970  \* U+230B RIGHT FLOOR
      [] self = 9002 -> 9001  \* U+232A RIGHT-POINTING ANGLE BRACKET
      [] self = 10089 -> 10088  \* U+2769 MEDIUM RIGHT PARENTHESIS ORNAMENT
      [] self = 10091 -> 10090  \* U+276B MEDIUM FLATTENED RIGHT PARENTHESIS ORNAMENT
      [] self = 10093 -> 10092  \* U+276D MEDIUM RIGHT-POINTING ANGLE BRACKET ORNAMENT
      [] self = 10095 -> 10094  \* U+276F HEAVY RIGHT-POINTING ANGLE QUOTATION MARK ORNAMENT
      [] self = 10097 -> 10096  \* U+2771 HEAVY RIGHT-POINTING ANGLE BRACKET ORNAMENT
      [] self = 10099 -> 10098  \* U+2773 LIGHT RIGHT TORTOISE SHELL BRACKET ORNAMENT
      [] self = 10101 -> 10100  \* U+2775 MEDIUM RIGHT CURLY BRACKET ORNAMENT
      [] self = 10182 -> 10181  \* U+27C6 RIGHT S-SHAPED BAG DELIMITER
      [] self = 10215 -> 10214  \* U+27E7 MATHEMATICAL RIGHT WHITE SQUARE BRACKET
      [] self = 10217 -> 10216  \* U+27E9 MATHEMATICAL RIGHT ANGLE BRACKET
      [] self = 10219 -> 10218  \* U+27EB MATHEMATICAL RIGHT DOUBLE ANGLE BRACKET
      [] self = 10221 -> 10220  \* U+27ED MATHEMATICAL RIGHT WHITE TORTOISE SHELL BRACKET
      [] self = 10223 -> 10222  \* U+27EF MATHEMATICAL RIGHT FLATTENED PARENTHESIS
      [] self = 10628 -> 10627  \* U+2984 RIGHT WHITE CURLY BRACKET
      [] self = 10630 -> 10629  \* U+2986 RIGHT WHITE PARENTHESIS
      [] self = 10632 -> 10631  \* U+2988 Z NOTATION RIGHT IMAGE BRACKET
      [] self = 10634 -> 10633  \* U+298A Z NOTATION RIGHT BINDING BRACKET
      [] self = 10636 -> 10635  \* U+298C RIGHT SQUARE BRACKET WITH UNDERBAR
      [] self = 10638 -> 10639  \* U+298E RIGHT SQUARE BRACKET WITH TICK IN BOTTOM CORNER
      [] self = 10640 -> 10639  \* U+2990 RIGHT SQUARE BRACKET WITH TICK IN TOP CORNER
      [] self = 10642 -> 10641  \* U+2992 RIGHT ANGLE BRACKET WITH DOT
      [] self = 10644 -> 10643  \* U+2994 RIGHT ARC GREATER-THAN BRACKET
      [] self = 10646 -> 10645  \* U+2996 DOUBLE RIGHT ARC LESS-THAN BRACKET
      [] self = 10648 -> 10647  \* U+2998 RIGHT BLACK TORTOISE SHELL BRACKET
      [] self = 10713 -> 10712  \* U+29D9 RIGHT WIGGLY FENCE
      [] self = 10715 -> 10714  \* U+29DB RIGHT DOUBLE WIGGLY FENCE
      [] self = 10749 -> 10748  \* U+29FD RIGHT-POINTING CURVED ANGLE BRACKET
      [] self = 11811 -> 11810  \* U+2E23 TOP RIGHT HALF BRACKET
      [] self = 11813 -> 11812  \* U+2E25 BOTTOM RIGHT HALF BRACKET
      [] self = 11815 -> 11814  \* U+2E27 RIGHT SIDEWAYS U BRACKET
      [] self = 11817 -> 11816  \* U+2E29 RIGHT DOUBLE PARENTHESIS
      [] self = 12297 -> 12296  \* U+3009 RIGHT ANGLE BRACKET
      [] self = 12299 -> 12298  \* U+300B RIGHT DOUBLE ANGLE BRACKET
      [] self = 12301 -> 12300  \* U+300D RIGHT CORNER BRACKET
      [] self = 12303 -> 12302  \* U+300F RIGHT WHITE CORNER BRACKET
      [] self = 12305 -> 12304  \* U+3011 RIGHT BLACK LENTICULAR BRACKET
      [] self = 12309 -> 12308  \* U+3015 RIGHT TORTOISE SHELL BRACKET
      [] self = 12311 -> 12310  \* U+3017 RIGHT WHITE LENTICULAR BRACKET
      [] self = 12313 -> 12312  \* U+3019 RIGHT WHITE TORTOISE SHELL BRACKET
      [] self = 12315 -> 12314  \* U+301B RIGHT WHITE SQUARE BRACKET
      [] self = 65114 -> 65113  \* U+FE5A SMALL RIGHT PARENTHESIS
      [] self = 65116 -> 65115  \* U+FE5C SMALL RIGHT CURLY BRACKET
      [] self = 65118 -> 65117  \* U+FE5E SMALL RIGHT TORTOISE SHELL BRACKET
      [] self = 65289 -> 65288  \* U+FF09 FULLWIDTH RIGHT PARENTHESIS
      [] self = 65341 -> 65339  \* U+FF3D FULLWIDTH RIGHT SQUARE BRACKET
      [] self = 65373 -> 65371  \* U+FF5D FULLWIDTH RIGHT CURLY BRACKET
      [] self = 65376 -> 65375  \* U+FF60 FULLWIDTH RIGHT WHITE PARENTHESIS
      [] self = 65379 -> 65378  \* U+FF63 HALFWIDTH RIGHT CORNER BRACKET
      [] OTHER -> self

\* fn to_open_bracket(&self) -> char: the wildcard arm returns *self.
to_open_bracket(self) ==
    CASE self = 41 -> 40  \* U+0029 RIGHT PARENTHESIS
      [] self = 93 -> 91  \* U+005D RIGHT SQUARE BRACKET
      [] self = 125 -> 123  \* U+007D RIGHT CURLY BRACKET
      [] self = 3899 -> 3898  \* U+0F3B TIBETAN MARK GUG RTAGS GYAS
      [] self = 3901 -> 3900  \* U+0F3D TIBETAN MARK ANG KHANG GYAS
      [] self = 5788 -> 5787  \* U+169C OGHAM REVERSED FEATHER MARK
      [] self = 8262 -> 8261  \* U+2046 RIGHT SQUARE BRACKET WITH QUILL
      [] self = 8318 -> 8317  \* U+207E SUPERSCRIPT RIGHT PARENTHESIS
      [] self = 8334 -> 8333  \* U+208E SUBSCRIPT RIGHT PARENTHESIS
      [] self = 8969 -> 8968  \* U+2309 RIGHT CEILING
      [] self = 8971 -> 8970  \* U+230B RIGHT FLOOR
      [] self = 9002 -> 9001  \* U+232A RIGHT-POINTING ANGLE BRACKET
      [] self = 10089 -> 10088  \* U+2769 MEDIUM RIGHT PARENTHESIS ORNAMENT
      [] self = 10091 -> 10090  \* U+276B MEDIUM FLATTENED RIGHT PARENTHESIS ORNAMENT
      [] self = 10093 -> 10092  \* U+276D MEDIUM RIGHT-POINTING ANGLE BRACKET ORNAMENT
      [] self = 10095 -> 10094  \* U+276F HEAVY RIGHT-POINTING ANGLE QUOTATION MARK ORNAMENT
      [] self = 10097 -> 10096  \* U+2771 HEAVY RIGHT-POINTING ANGLE BRACKET ORNAMENT
      [] self = 10099 -> 10098  \* U+2773 LIGHT RIGHT TORTOISE SHELL BRACKET ORNAMENT
      [] self = 10101 -> 10100  \* U+2775 MEDIUM RIGHT CURLY BRACKET ORNAMENT
      [] self = 10182 -> 10181  \* U+27C6 RIGHT S-SHAPED BAG DELIMITER
      [] self = 10215 -> 10214  \* U+27E7 MATHEMATICAL RIGHT WHITE SQUARE BRACKET
      [] self = 10217 -> 10216  \* U+27E9 MATHEMATICAL RIGHT ANGLE BRACKET
      [] self = 10219 -> 10218  \* U+27EB MATHEMATICAL RIGHT DOUBLE ANGLE BRACKET
      [] self = 10221 -> 10220  \* U+27ED MATHEMATICAL RIGHT WHITE TORTOISE SHELL BRACKET
      [] self = 10223 -> 10222  \* U+27EF MATHEMATICAL RIGHT FLATTENED PARENTHESIS
      [] self = 10628 -> 10627  \* U+2984 RIGHT WHITE CURLY BRACKET
      [] self = 10630 -> 10629  \* U+2986 RIGHT WHITE PARENTHESIS
      [] self = 10632 -> 10631  \* U+2988 Z NOTATION RIGHT IMAGE BRACKET
      [] self = 10634 -> 10633  \* U+298A Z NOTATION RIGHT BINDING BRACKET
      [] self = 10636 -> 10635  \* U+298C RIGHT SQUARE BRACKET WITH UNDERBAR
      [] self = 10638 -> 10639  \* U+298E RIGHT SQUARE BRACKET WITH TICK IN BOTTOM CORNER
      [] self = 10640 -> 10637  \* U+2990 RIGHT SQUARE BRACKET WITH TICK IN TOP CORNER
      [] self = 10642 -> 10641  \* U+2992 RIGHT ANGLE BRACKET WITH DOT
      [] self = 10644 -> 10643  \* U+2994 RIGHT ARC GREATER-THAN BRACKET
      [] self = 10646 -> 10645  \* U+2996 DOUBLE RIGHT ARC LESS-THAN BRACKET
      [] self = 10648 -> 10647  \* U+2998 RIGHT BLACK TORTOISE SHELL BRACKET
      [] self = 10713 -> 10712  \* U+29D9 RIGHT WIGGLY FENCE
      [] self = 10715 -> 10714  \* U+29DB RIGHT DOUBLE WIGGLY FENCE
      [] self = 10749 -> 10748  \* U+29FD RIGHT-POINTING CURVED ANGLE BRACKET
      [] self = 11811 -> 11810  \* U+2E23 TOP RIGHT HALF BRACKET
      [] self = 11813 -> 11812  \* U+2E25 BOTTOM RIGHT HALF BRACKET
      [] self = 11815 -> 11814  \* U+2E27 RIGHT SIDEWAYS U BRACKET
      [] self = 11817 -> 11816  \* U+2E29 RIGHT DOUBLE PARENTHESIS
      [] self = 12297 -> 12296  \* U+3009 RIGHT ANGLE BRACKET
      [] self = 12299 -> 12298  \* U+300B RIGHT DOUBLE ANGLE BRACKET
      [] self = 12301 -> 12300  \* U+300D RIGHT CORNER BRACKET
      [] self = 12303 -> 12302  \* U+300F RIGHT WHITE CORNER BRACKET
      [] self = 12305 -> 12304  \* U+3011 RIGHT BLACK LENTICULAR BRACKET
      [] self = 12309 -> 12308  \* U+3015 RIGHT TORTOISE SHELL BRACKET
      [] self = 12311 -> 12310  \* U+3017 RIGHT WHITE LENTICULAR BRACKET
      [] self = 12313 -> 12312  \* U+3019 RIGHT WHITE TORTOISE SHELL BRACKET
      [] self = 12315 -> 12314  \* U+301B RIGHT WHITE SQUARE BRACKET
      [] self = 65114 -> 65113  \* U+FE5A SMALL RIGHT PARENTHESIS
      [] self = 65116 -> 65115  \* U+FE5C SMALL RIGHT CURLY BRACKET
      [] self = 65118 -> 65117  \* U+FE5E SMALL RIGHT TORTOISE SHELL BRACKET
      [] self = 65289 -> 65288  \* U+FF09 FULLWIDTH RIGHT PARENTHESIS
      [] self = 65341 -> 65339  \* U+FF3D FULLWIDTH RIGHT SQUARE BRACKET
      [] self = 65373 -> 65371  \* U+FF5D FULLWIDTH RIGHT CURLY BRACKET
      [] self = 65376 -> 65375  \* U+FF60 FULLWIDTH RIGHT WHITE PARENTHESIS
      [] self = 65379 -> 65378  \* U+FF63 HALFWIDTH RIGHT CORNER BRACKET
      [] OTHER -> self

\* ---------------------------------------------------------------------------
\* Bounds of the exploration.
\* ---------------------------------------------------------------------------

\* The chars 0..ScanMax, the Basic Multilingual Plane, are searched for
\* characters on which some method leaves its wildcard arm.  Every literal of
\* the source lies in this range (the largest is U+FF63).
ScanMax == 65535

\* Characters within Radius of such a character are explored as well.
Radius == 2

\* A caller makes at most MaxCalls calls in a row.
MaxCalls == 3

\* A character is Special when one of the four methods does not take its
\* wildcard arm on it.
Special(x) ==
    \/ is_open_bracket(x)
    \/ is_close_bracket(x)
    \/ to_close_bracket(x) # x
    \/ to_open_bracket(x) # x

\* The chars up to ScanMax are examined one by one.
SpecialChars == {x \in 0..ScanMax : IsScalar(x) /\ Special(x)}

\* Characters that no method mentions: the ends of the two scalar ranges, the
\* first char beyond the Basic Multilingual Plane, 'a', and the ASCII and
\* Latin-1 angle signs.
Probes == {0, 60, 62, 97, 171, 187, SurrogateLo - 1, SurrogateHi + 1, 65536, MaxScalar}

\* x is within Radius of a character of SpecialChars.
Near(x) == \E d \in (0 - Radius)..Radius : (x + d) \in SpecialChars

\* The characters the caller starts from.  The methods compare *self with
\* literals only, so every character outside SpecialChars takes the wildcard
\* arm of all four methods and behaves as the probes do.
Chars == {x \in 0..(ScanMax + Radius) : IsScalar(x) /\ Near(x)} \cup Probes

\* ---------------------------------------------------------------------------
\* The caller.
\* ---------------------------------------------------------------------------

VARIABLES
    chr,   \* the character the caller holds, receiver of the next call
    calls   \* the calls made so far: records [op, arg, ret]

vars == <<chr, calls>>

Init ==
    /\ chr \in Chars
    /\ calls = << >>

\* c.is_open_bracket(): returns a bool, the caller keeps c.
IsOpenBracket ==
    /\ Len(calls) < MaxCalls
    /\ calls' = Append(calls, [op |-> "is_open_bracket", arg |-> chr,
                               ret |-> is_open_bracket(chr)])
    /\ UNCHANGED chr

\* c.is_close_bracket(): returns a bool, the caller keeps c.
IsCloseBracket ==
    /\ Len(calls) < MaxCalls
    /\ calls' = Append(calls, [op |-> "is_close_bracket", arg |-> chr,
                               ret |-> is_close_bracket(chr)])
    /\ UNCHANGED chr

\* c.to_close_bracket(): returns a char, which the caller goes on with
\* (the crate's doc test maps to_close_bracket over an array and keeps the
\* results).
ToCloseBracket ==
    /\ Len(calls) < MaxCalls
    /\ calls' = Append(calls, [op |-> "to_close_bracket", arg |-> chr,
                               ret |-> to_close_bracket(chr)])
    /\ chr' = to_close_bracket(chr)

\* c.to_open_bracket(): returns a char, which the caller goes on with.
ToOpenBracket ==
    /\ Len(calls) < MaxCalls
    /\ calls' = Append(calls, [op |-> "to_open_bracket", arg |-> chr,
                               ret |-> to_open_bracket(chr)])
    /\ chr' = to_open_bracket(chr)

Next ==
    \/ IsOpenBracket
    \/ IsCloseBracket
    \/ ToCloseBracket
    \/ ToOpenBracket

Spec == Init /\ [][Next]_vars

\* ---------------------------------------------------------------------------
\* Views of the call history used by the properties.
\* ---------------------------------------------------------------------------

\* Call i + 1 is method n applied to what call i, method m, returned.
Then(i, m, n) ==
    /\ i + 1 <= Len(calls)
    /\ calls[i].op = m
    /\ calls[i + 1].op = n
    /\ calls[i + 1].arg = calls[i].ret

\* Call i + 1 is method n applied to the receiver of call i, method m
\* (m is a predicate, so the caller still holds that receiver).
Same(i, m, n) ==
    /\ i + 1 <= Len(calls)
    /\ calls[i].op = m
    /\ calls[i + 1].op = n
    /\ calls[i + 1].arg = calls[i].arg

Idx == 1..Len(calls)

\* The pair relation as the classification sees it: an open bracket and what
\* to_close_bracket makes of it.
Pairs == {<<o, to_close_bracket(o)>> : o \in {x \in Chars : is_open_bracket(x)}}

\* The characters that occur as the open value, and as the close value, of
\* some pair.
OpenValues == {p[1] : p \in Pairs}

CloseValues == {p[2] : p \in Pairs}

OpenBrackets == {x \in Chars : is_open_bracket(x)}

CloseBrackets == {x \in Chars : is_close_bracket(x)}

\* The table as the transforms hold it: every (open, close) that one of the
\* two transforms maps.
TransformPairs ==
    {<<o, to_close_bracket(o)>> : o \in {x \in Chars : to_close_bracket(x) # x}}
        \cup {<<to_open_bracket(c), c>> : c \in {x \in Chars : to_open_bracket(x) # x}}

OutOfTable(x) == \A p \in TransformPairs : x # p[1] /\ x # p[2]

\* ---------------------------------------------------------------------------
\* Properties.
\* ---------------------------------------------------------------------------

\* C1: the two transforms are mutually inverse on the pairs.  When
\* to_close_bracket is applied to an open bracket o, the result c is
\* classified as a close bracket and to_open_bracket(c) returns o; when
\* to_open_bracket is applied to a close bracket c, the result o is classified
\* as an open bracket and to_close_bracket(o) returns c.
C1_MutualInverse ==
    \A i \in Idx :
        /\ (Then(i, "to_close_bracket", "is_close_bracket") /\ is_open_bracket(calls[i].arg))
              => calls[i + 1].ret = TRUE
        /\ (Then(i, "to_close_bracket", "to_open_bracket") /\ is_open_bracket(calls[i].arg))
              => calls[i + 1].ret = calls[i].arg
        /\ (Then(i, "to_open_bracket", "is_open_bracket") /\ is_close_bracket(calls[i].arg))
              => calls[i + 1].ret = TRUE
        /\ (Then(i, "to_open_bracket", "to_close_bracket") /\ is_close_bracket(calls[i].arg))
              => calls[i + 1].ret = calls[i].arg

\* The doc test's U+2991 is closed to U+2992 and opened again.
C1_Witness ==
    /\ Len(calls) >= 2
    /\ Then(1, "to_close_bracket", "to_open_bracket")
    /\ calls[1].arg = 10641
    /\ is_open_bracket(calls[1].arg)
    /\ calls[1].ret = 10642
    /\ calls[2].ret = 10641

\* C2: the hard-coded classification agrees with the transforms.  For the
\* same character x, is_open_bracket(x) is true exactly when
\* to_close_bracket(x) differs from x, and is_close_bracket(x) is true exactly
\* when to_open_bracket(x) differs from x.
C2_Consistency ==
    \A i \in Idx :
        /\ Same(i, "is_open_bracket", "to_close_bracket")
              => (calls[i].ret = (calls[i + 1].ret # calls[i].arg))
        /\ Same(i, "is_close_bracket", "to_open_bracket")
              => (calls[i].ret = (calls[i + 1].ret # calls[i].arg))

\* Both directions of the equivalence occur: a close bracket that
\* is_close_bracket accepts and to_open_bracket changes, after a character
\* that is_open_bracket rejects.
C2_Witness ==
    /\ Len(calls) = 3
    /\ calls[1].op = "is_open_bracket" /\ calls[1].ret = FALSE
    /\ Same(2, "is_close_bracket", "to_open_bracket")
    /\ calls[2].ret = TRUE
    /\ calls[3].ret # calls[3].arg

\* C3: identity fallback.  to_close_bracket returns its receiver when the
\* receiver is not an open bracket, and to_open_bracket returns its receiver
\* when the receiver is not a close bracket; to_open_bracket('(') is '(' and
\* to_close_bracket('a') is 'a'.
C3_IdentityFallback ==
    \A i \in Idx :
        /\ (calls[i].op = "to_close_bracket" /\ ~is_open_bracket(calls[i].arg))
              => calls[i].ret = calls[i].arg
        /\ (calls[i].op = "to_open_bracket" /\ ~is_close_bracket(calls[i].arg))
              => calls[i].ret = calls[i].arg
        /\ (calls[i].op = "to_open_bracket" /\ calls[i].arg = 40)
              => calls[i].ret = 40
        /\ (calls[i].op = "to_close_bracket" /\ calls[i].arg = 97)
              => calls[i].ret = 97

\* to_close_bracket applied to a close bracket, ')', which it leaves alone.
C3_Witness ==
    /\ Len(calls) >= 1
    /\ calls[1].op = "to_close_bracket"
    /\ calls[1].arg = 41
    /\ is_close_bracket(calls[1].arg)
    /\ ~is_open_bracket(calls[1].arg)
    /\ calls[1].ret = 41

\* C4: no character is classified both open and close: when both predicates
\* are asked about the same character, they do not both answer true, so the
\* character is Opening, Closing or Neither, and only one of them.
Opening(o, c) == o /\ ~c

Closing(o, c) == c /\ ~o

Neither(o, c) == ~o /\ ~c

ExactlyOneClass(o, c) ==
    Cardinality({k \in {"Opening", "Closing", "Neither"} :
                    \/ k = "Opening" /\ Opening(o, c)
                    \/ k = "Closing" /\ Closing(o, c)
                    \/ k = "Neither" /\ Neither(o, c)}) = 1

C4_MutuallyExclusive ==
    \A i \in Idx :
        /\ Same(i, "is_open_bracket", "is_close_bracket")
              => /\ ~(calls[i].ret /\ calls[i + 1].ret)
                 /\ ExactlyOneClass(calls[i].ret, calls[i + 1].ret)
        /\ Same(i, "is_close_bracket", "is_open_bracket")
              => /\ ~(calls[i].ret /\ calls[i + 1].ret)
                 /\ ExactlyOneClass(calls[i + 1].ret, calls[i].ret)

\* An open bracket of the asymmetric block asked both questions.
C4_Witness ==
    /\ Len(calls) >= 2
    /\ Same(1, "is_open_bracket", "is_close_bracket")
    /\ calls[1].arg = 10639
    /\ calls[1].ret = TRUE
    /\ calls[2].ret = FALSE

\* C5: round trip.  For a character x that is an open bracket or no bracket
\* at all (that is, not a close bracket), to_close_bracket followed by
\* to_open_bracket returns x.
C5_RoundTrip ==
    \A i \in Idx :
        (Then(i, "to_close_bracket", "to_open_bracket") /\ ~is_close_bracket(calls[i].arg))
            => calls[i + 1].ret = calls[i].arg

\* The round trip of an open bracket whose close bracket is not its
\* successor: U+298D is closed to U+2990 and opened again.
C5_Witness ==
    /\ Len(calls) >= 2
    /\ Then(1, "to_close_bracket", "to_open_bracket")
    /\ calls[1].arg = 10637
    /\ ~is_close_bracket(calls[1].arg)
    /\ calls[1].ret = 10640
    /\ calls[2].ret = 10637

\* C6: the pair relation {(o, to_close_bracket(o)) : is_open_bracket(o)} is a
\* bijection between the open and the close brackets.  The close bracket that
\* to_close_bracket returns for an open bracket is returned for no other open
\* bracket; every close bracket is the image of exactly one open bracket under
\* to_close_bracket, and every open bracket the image of exactly one close
\* bracket under to_open_bracket; and no character is the open value of one
\* pair and the close value of another.
C6_Bijection ==
    /\ \A i \in Idx :
          /\ (calls[i].op = "to_close_bracket" /\ calls[i].arg \in OpenBrackets)
                => /\ calls[i].ret \in CloseBrackets
                   /\ \A o \in OpenBrackets \ {calls[i].arg} :
                          to_close_bracket(o) # calls[i].ret
          /\ (calls[i].op = "to_open_bracket" /\ calls[i].arg \in CloseBrackets)
                => /\ calls[i].ret \in OpenBrackets
                   /\ \A c \in CloseBrackets \ {calls[i].arg} :
                          to_open_bracket(c) # calls[i].ret
    /\ chr \in CloseBrackets
          => Cardinality({o \in OpenBrackets : to_close_bracket(o) = chr}) = 1
    /\ chr \in OpenBrackets
          => Cardinality({c \in CloseBrackets : to_open_bracket(c) = chr}) = 1
    /\ \A i \in Idx : ~(calls[i].arg \in OpenValues /\ calls[i].arg \in CloseValues)

\* U+298F is closed to U+298E, the character next to the open bracket U+298D.
C6_Witness ==
    /\ Len(calls) >= 1
    /\ calls[1].op = "to_close_bracket"
    /\ calls[1].arg = 10639
    /\ calls[1].arg \in OpenBrackets
    /\ calls[1].ret = 10638
    /\ chr \in CloseBrackets
    /\ Cardinality(OpenBrackets) > 1

\* C7: all four methods are total.  Every call returns: a predicate returns a
\* boolean, a transform returns a char, and for a receiver outside the table a
\* predicate returns false and a transform returns the receiver.
C7_Total ==
    \A i \in Idx :
        /\ calls[i].op \in {"is_open_bracket", "is_close_bracket"}
              => /\ calls[i].ret \in BOOLEAN
                 /\ OutOfTable(calls[i].arg) => calls[i].ret = FALSE
        /\ calls[i].op \in {"to_close_bracket", "to_open_bracket"}
              => /\ IsScalar(calls[i].ret)
                 /\ OutOfTable(calls[i].arg) => calls[i].ret = calls[i].arg

\* The largest char, U+10FFFF, is outside the table: one predicate and both
\* transforms have been applied to it.
C7_Witness ==
    /\ Len(calls) = 3
    /\ calls[1].arg = MaxScalar
    /\ OutOfTable(calls[1].arg)
    /\ calls[1].op = "is_open_bracket" /\ calls[1].ret = FALSE
    /\ calls[2].op = "to_close_bracket" /\ calls[2].ret = MaxScalar
    /\ calls[3].op = "to_open_bracket" /\ calls[3].ret = MaxScalar

\* C9: the asymmetric entries map back exactly.  to_close_bracket(U+298D) is
\* U+2990 and to_open_bracket(U+2990) is U+298D; to_close_bracket(U+298F) is
\* U+298E and to_open_bracket(U+298E) is U+298F; U+298D and U+298F are
\* classified open, U+298E and U+2990 are classified close.
C9_AsymmetricEntries ==
    \A i \in Idx :
        /\ (calls[i].op = "to_close_bracket" /\ calls[i].arg = 10637) => calls[i].ret = 10640
        /\ (calls[i].op = "to_open_bracket" /\ calls[i].arg = 10640) => calls[i].ret = 10637
        /\ (calls[i].op = "to_close_bracket" /\ calls[i].arg = 10639) => calls[i].ret = 10638
        /\ (calls[i].op = "to_open_bracket" /\ calls[i].arg = 10638) => calls[i].ret = 10639
        /\ (calls[i].op = "is_open_bracket" /\ calls[i].arg \in {10637, 10639})
              => calls[i].ret = TRUE
        /\ (calls[i].op = "is_close_bracket" /\ calls[i].arg \in {10638, 10640})
              => calls[i].ret = TRUE

\* U+298E is classified close, opened to U+298F and closed to U+298E again.
C9_Witness ==
    /\ Len(calls) = 3
    /\ calls[1].op = "is_close_bracket" /\ calls[1].arg = 10638 /\ calls[1].ret = TRUE
    /\ calls[2].op = "to_open_bracket" /\ calls[2].arg = 10638 /\ calls[2].ret = 10639
    /\ calls[3].op = "to_close_bracket" /\ calls[3].arg = 10639 /\ calls[3].ret = 10638

\* C10: a transform never returns a bracket of the class it converts from.
\* is_open_bracket is false of whatever to_close_bracket returned and
\* is_close_bracket is false of whatever to_open_bracket returned; applying
\* the same transform a second time returns what the first application
\* returned.
C10_NeverSourceClass ==
    \A i \in Idx :
        /\ Then(i, "to_close_bracket", "is_open_bracket") => calls[i + 1].ret = FALSE
        /\ Then(i, "to_open_bracket", "is_close_bracket") => calls[i + 1].ret = FALSE
        /\ Then(i, "to_close_bracket", "to_close_bracket") => calls[i + 1].ret = calls[i].ret
        /\ Then(i, "to_open_bracket", "to_open_bracket") => calls[i + 1].ret = calls[i].ret

\* '[' is closed to ']', which is_open_bracket rejects and a second
\* to_close_bracket leaves alone.
C10_Witness ==
    /\ Len(calls) = 3
    /\ calls[1].op = "to_close_bracket" /\ calls[1].arg = 91 /\ calls[1].ret = 93
    /\ Then(1, "to_close_bracket", "is_open_bracket") /\ calls[2].ret = FALSE
    /\ calls[3].op = "to_close_bracket" /\ calls[3].arg = 93 /\ calls[3].ret = 93

\* C11: composing the two transforms collapses to the outer one, for every
\* character: to_open_bracket applied to what to_close_bracket returned for x
\* returns to_open_bracket(x), and to_close_bracket applied to what
\* to_open_bracket returned for x returns to_close_bracket(x).  For a close
\* bracket c, to_close_bracket followed by to_open_bracket therefore returns
\* the open partner of c, not c.
C11_OuterWins ==
    \A i \in Idx :
        /\ Then(i, "to_close_bracket", "to_open_bracket")
              => /\ calls[i + 1].ret = to_open_bracket(calls[i].arg)
                 /\ is_close_bracket(calls[i].arg)
                       => /\ calls[i + 1].ret # calls[i].arg
                          /\ calls[i + 1].ret \in OpenBrackets
                          /\ to_close_bracket(calls[i + 1].ret) = calls[i].arg
        /\ Then(i, "to_open_bracket", "to_close_bracket")
              => calls[i + 1].ret = to_close_bracket(calls[i].arg)

\* The close bracket U+2990 is left alone by to_close_bracket and then opened
\* to its partner U+298D.
C11_Witness ==
    /\ Len(calls) >= 2
    /\ Then(1, "to_close_bracket", "to_open_bracket")
    /\ calls[1].arg = 10640
    /\ is_close_bracket(calls[1].arg)
    /\ calls[1].ret = 10640
    /\ calls[2].ret = 10637

====
